---- MODULE Spec2Model ----
(***************************************************************************)
(* Model of transpiler/functions.go: the lowering of C function            *)
(* declarations (transpileFunctionDecl) and of return statements           *)
(* (transpileReturnStmt) into Go AST, with the process-wide function       *)
(* registry and the active-function pointer p.Function.                    *)
(*                                                                         *)
(* Text that the code takes apart (the prototype n.Type) is a sequence of  *)
(* one-character strings; C type spellings are such sequences too.  Names  *)
(* are strings.  Go AST nodes are records of one shape per syntactic       *)
(* class (expressions, statements, declarations).                          *)
(***************************************************************************)
EXTENDS Naturals, Sequences, FiniteSets

VARIABLES
    registry,    \* program.functionDefinitions: name -> FunctionDefinition or Nil
    pFunction,   \* p.Function: the declaration being lowered, or Nil
    fileDecls,   \* p.File.Decls: the emitted Go function declarations
    messages,    \* number of diagnostics recorded through p.AddMessage
    imports,     \* the imports recorded through p.AddImport
    pc,          \* "idle", or "body" while transpileToBlockStmt runs for n
    n,           \* the declaration of the current (or last) transpileFunctionDecl
    body,        \* the statements lowered so far by transpileToBlockStmt
    result,      \* how the last transpileFunctionDecl ended
    ret,         \* the node and the results of the transpileReturnStmt that
                 \* ran in the last step, NoReturn after any other step
    lowered      \* number of declarations handed to transpileFunctionDecl

vars == <<registry, pFunction, fileDecls, messages, imports, pc, n, body,
          result, ret, lowered>>

\* Bounds of the model: the declarations handed to transpileFunctionDecl and
\* the statements a body may hold before no further statement is lowered,
\* for the specification of the declarations (Spec) and for that of the
\* return statements (SpecReturn)
MaxDecls == 2
MaxStmts == 1
MaxReturnDecls == 1
MaxReturnStmts == 1

Nil == [kind |-> "nil"]

----
\* Strings of characters

RECURSIVE IndexOf(_, _, _)
\* position of the first c in s at or after i, or Len(s) + 1
IndexOf(s, c, i) ==
    IF i > Len(s) THEN Len(s) + 1
    ELSE IF s[i] = c THEN i
    ELSE IndexOf(s, c, i + 1)

\* strings.Split(f, "(")[0]: the text before the first "(", or all of f
SplitFirst(f, c) == SubSeq(f, 1, IndexOf(f, c, 1) - 1)

RECURSIVE TrimLeft(_)
TrimLeft(s) ==
    IF s # <<>> /\ Head(s) = " " THEN TrimLeft(Tail(s)) ELSE s

RECURSIVE TrimRight(_)
TrimRight(s) ==
    IF s # <<>> /\ s[Len(s)] = " " THEN TrimRight(SubSeq(s, 1, Len(s) - 1)) ELSE s

\* strings.TrimSpace
TrimSpace(s) == TrimRight(TrimLeft(s))

\* (mutant) the text before the first "(", not trimmed
ReturnTypeText_untrimmed(f) == SplitFirst(f, "(")

\* getFunctionReturnType before its check: the trimmed text before the first "("
ReturnTypeText(f) == TrimSpace(SplitFirst(f, "("))

\* getFunctionReturnType panics exactly when that text is empty
ReturnTypePanics(f) == ReturnTypeText(f) = <<>>

\* getFunctionReturnType when it returns
getFunctionReturnType(f) == ReturnTypeText(f)

----
\* The C AST

ParmVarDecl(name, type) == [kind |-> "ParmVarDecl", Name |-> name, Type |-> type]
CompoundStmt == [kind |-> "CompoundStmt", Name |-> "", Type |-> <<>>]

RECURSIVE FirstCompound(_, _)
FirstCompound(children, i) ==
    IF i > Len(children) THEN 0
    ELSE IF children[i].kind = "CompoundStmt" THEN i
    ELSE FirstCompound(children, i + 1)

\* getFunctionBody: the first CompoundStmt child, here TRUE when there is one
getFunctionBody(d) == FirstCompound(d.Children, 1) # 0

RECURSIVE SelectParams(_)
SelectParams(children) ==
    IF children = <<>> THEN <<>>
    ELSE IF Head(children).kind = "ParmVarDecl"
         THEN <<Head(children)>> \o SelectParams(Tail(children))
         ELSE SelectParams(Tail(children))

\* getFunctionArgumentTypes: the types of the ParmVarDecl children, in order
getFunctionArgumentTypes(d) ==
    [i \in 1..Len(SelectParams(d.Children)) |-> SelectParams(d.Children)[i].Type]

----
\* The Go AST

Expr(kind, value, to, x) == [kind |-> kind, value |-> value, to |-> to, x |-> x]
Ident(name) == Expr("Ident", name, <<>>, <<>>)
BasicLit(value) == Expr("BasicLit", value, <<>>, <<>>)
CallExpr(fun, args) == Expr("CallExpr", fun, <<>>, args)
BinaryExpr(l, tok, r) == Expr("BinaryExpr", tok, <<>>, <<l, r>>)

Stmt(kind, x, inner) == [kind |-> kind, x |-> x, inner |-> inner]
ExprStmt(e) == Stmt("ExprStmt", <<e>>, <<>>)
GoReturnStmt(results) == Stmt("ReturnStmt", results, <<>>)
RangeStmt(key, value, x, inner) == Stmt("RangeStmt", <<key, value, x>>, inner)

Field(name, type) == [Name |-> name, Type |-> type]
FuncDecl(name, params, results, b) ==
    [Name |-> name, Params |-> params, Results |-> results, Body |-> b]

----
\* The function registry (package program)

FunctionDefinition(name, returnType, argumentTypes, substitution) ==
    [kind |-> "def", Name |-> name, ReturnType |-> returnType,
     ArgumentTypes |-> argumentTypes, Substitution |-> substitution]

\* program.GetFunctionDefinition: the definition stored under the name, or Nil
GetFunctionDefinition(reg, name) == reg[name]

\* program.AddFunctionDefinition: stores the definition under its name
AddFunctionDefinition(reg, f) == [reg EXCEPT ![f.Name] = f]

\* The names of the declarations fed to the transpiler
FunctionNames == {"main", "f", "__istype", "sub"}

\* The definitions the registry holds before any declaration is lowered:
\* a library function with a direct Go substitute
BuiltInDefinitions ==
    [name \in FunctionNames |->
        IF name = "sub"
        THEN FunctionDefinition("sub", <<"i">>, <<>>, "noarch.Sub")
        ELSE Nil]

\* The definition transpileFunctionDecl builds for a declaration
NewDefinition(d) ==
    FunctionDefinition(d.Name, getFunctionReturnType(d.Type),
                       getFunctionArgumentTypes(d), "")

\* (mutant) the registration without its test: a later declaration
\* replaces the definition
RegisterDecl_overwrite(reg, d) == AddFunctionDefinition(reg, NewDefinition(d))

\* (mutant) the registration left out
RegisterDecl_skip(reg, d) == reg

\* transpileFunctionDecl, the registration: only a name not yet registered
\* is added
RegisterDecl(reg, d) ==
    IF GetFunctionDefinition(reg, d.Name) = Nil
    THEN AddFunctionDefinition(reg, NewDefinition(d))
    ELSE reg

\* The registration panics when it has to extract the return type and the
\* prototype has none
RegisterPanics(reg, d) ==
    GetFunctionDefinition(reg, d.Name) = Nil /\ ReturnTypePanics(d.Type)

\* (mutant) the substitution is not looked at
HasSubstitution_never(f) == FALSE

\* f != nil && f.Substitution != ""
HasSubstitution(f) == f # Nil /\ f.Substitution # ""

\* The names transpileFunctionDecl refuses to emit
IsIgnoredFunction(name) ==
    name \in {"__istype", "__isctype", "__wcwidth", "__sputc",
              "__inline_signbitf", "__inline_signbitd", "__inline_signbitl"}

----
\* Collaborators (packages types and util)

\* types.ResolveType: the Go type of a C type; an unknown C type resolves to
\* a fallback with an error
ResolveType(t) ==
    IF t = <<"i">> THEN [type |-> "int", ok |-> TRUE]
    ELSE IF t = <<"v">> THEN [type |-> "", ok |-> TRUE]
    ELSE IF t = <<"c">> THEN [type |-> "[][]byte", ok |-> TRUE]
    ELSE [type |-> "interface{}", ok |-> FALSE]

\* types.CastExpr when it succeeds: e converted to the type `to`
CastExpr(e, to) == Expr("Cast", "", to, <<e>>)

\* util.NewStringLit("nil")
NilLit == BasicLit("nil")

\* p.AddImport
AddImport(imps, name) == imps \cup {name}

----
\* getFieldList

RECURSIVE FieldsOf(_)
FieldsOf(params) ==
    IF params = <<>> THEN <<>>
    ELSE <<Field(Head(params).Name, ResolveType(Head(params).Type).type)>>
         \o FieldsOf(Tail(params))

RECURSIVE UnresolvedCount(_)
UnresolvedCount(params) ==
    IF params = <<>> THEN 0
    ELSE (IF ResolveType(Head(params).Type).ok THEN 0 ELSE 1)
         + UnresolvedCount(Tail(params))

\* getFieldList: one field per ParmVarDecl child, in order
getFieldList(d) == FieldsOf(SelectParams(d.Children))

\* the warnings getFieldList records
getFieldListWarnings(d) == UnresolvedCount(SelectParams(d.Children))

----
\* transpileFunctionDecl, the rewriting of main

InitCall == ExprStmt(CallExpr("__init", <<>>))

ArgcStmts(fieldList) ==
    IF Len(fieldList) > 0
    THEN <<ExprStmt(BinaryExpr(Ident(fieldList[1].Name), ":=",
                               Ident("len(os.Args)")))>>
    ELSE <<>>

ArgvStmts(fieldList) ==
    IF Len(fieldList) > 1
    THEN <<ExprStmt(BinaryExpr(Ident(fieldList[2].Name), ":=",
                               Ident("[][]byte{}"))),
           RangeStmt(Ident("_"), Ident("argvSingle"), Ident("os.Args"),
               <<ExprStmt(BinaryExpr(Ident(fieldList[2].Name), "=",
                   CallExpr("append", <<Ident(fieldList[2].Name),
                                        Ident("[]byte(argvSingle)")>>)))>>)>>
    ELSE <<>>

\* prependStmtsInMain
PrependStmtsInMain(fieldList) ==
    <<InitCall>> \o ArgcStmts(fieldList) \o ArgvStmts(fieldList)

\* (mutant) the statements of main appended instead of prepended
MainBody_appended(fieldList, b) == b \o PrependStmtsInMain(fieldList)

\* the body of the emitted main
MainBody(fieldList, b) == PrependStmtsInMain(fieldList) \o b

\* p.Function != nil && p.Function.Name == "main"
IsMain(fn) == fn # Nil /\ fn.Name = "main"

\* The Go declaration transpileFunctionDecl appends for the declaration d
\* with the registered definition f and the lowered body b, while fn is the
\* active function
EmittedDecl(fn, d, f, b) ==
    IF IsMain(fn)
    THEN FuncDecl(d.Name, <<>>, <<>>, MainBody(getFieldList(d), b))
    ELSE FuncDecl(d.Name, getFieldList(d),
                  <<ResolveType(f.ReturnType).type>>, b)

\* the imports after the emission
EmittedImports(fn, d, imps) ==
    IF IsMain(fn) /\ Len(getFieldList(d)) > 0
    THEN AddImport(imps, "os")
    ELSE imps

\* the warnings recorded during the emission
EmittedWarnings(d, f) ==
    getFieldListWarnings(d) + (IF ResolveType(f.ReturnType).ok THEN 0 ELSE 1)


----
\* transpileReturnStmt

\* A return node as transpileReturnStmt meets it: whether it has a child
\* and what the collaborators make of the child (transpileToExpr's error or
\* expression, pre- and post-statements; whether types.CastExpr succeeds)
ReturnNode(hasChild, exprErr, e, preStmts, postStmts, castOk) ==
    [hasChild |-> hasChild, exprErr |-> exprErr, e |-> e,
     preStmts |-> preStmts, postStmts |-> postStmts, castOk |-> castOk]

NoStmt == Stmt("nil", <<>>, <<>>)

Returned(stmt, preStmts, postStmts, err) ==
    [stmt |-> stmt, preStmts |-> preStmts, postStmts |-> postStmts, err |-> err]

\* (mutant) the result of the failed cast is kept
ReturnValue_kept(r, f) == CastExpr(r.e, f.ReturnType)

\* t: the cast expression, or the "nil" literal when the cast failed
ReturnValue(r, f) ==
    IF r.castOk THEN CastExpr(r.e, f.ReturnType) ELSE NilLit

\* (mutant) every literal is taken for the literal 0
ReturnIsExit_anyLiteral(r, fn) == IsMain(fn) /\ r.e.kind # "BasicLit"

\* main leaves through os.Exit unless the expression is the literal 0
ReturnIsExit(r, fn) ==
    IsMain(fn) /\ ~(r.e.kind = "BasicLit" /\ r.e.value = "0")

\* the statement built for a return node whose child was lowered
ReturnStmtFor(r, fn, f) ==
    IF IsMain(fn)
    THEN IF ReturnIsExit(r, fn)
         THEN ExprStmt(CallExpr("os.Exit", <<ReturnValue(r, f)>>))
         ELSE GoReturnStmt(<<>>)
    ELSE GoReturnStmt(<<ReturnValue(r, f)>>)

\* (mutant) transpileReturnStmt without its early return for a node with
\* no child
transpileReturnStmt_noEarlyReturn(r, fn, reg) ==
    IF r.exprErr THEN Returned(NoStmt, <<>>, <<>>, TRUE)
    ELSE Returned(ReturnStmtFor(r, fn, GetFunctionDefinition(reg, fn.Name)),
                  r.preStmts, r.postStmts, FALSE)

\* transpileReturnStmt: the statement, the pre- and post-statements, the error
transpileReturnStmt(r, fn, reg) ==
    IF ~r.hasChild THEN Returned(GoReturnStmt(<<>>), <<>>, <<>>, FALSE)
    ELSE IF r.exprErr THEN Returned(NoStmt, <<>>, <<>>, TRUE)
    ELSE Returned(ReturnStmtFor(r, fn, GetFunctionDefinition(reg, fn.Name)),
                  r.preStmts, r.postStmts, FALSE)

\* the warnings transpileReturnStmt records
ReturnWarnings(r) ==
    IF r.hasChild /\ ~r.exprErr /\ ~r.castOk THEN 1 ELSE 0

\* the imports after transpileReturnStmt
ReturnImports(r, fn, imps) ==
    IF r.hasChild /\ ~r.exprErr /\ ReturnIsExit(r, fn)
    THEN AddImport(imps, "os")
    ELSE imps

----
\* The inputs

FunctionDecl(name, type, children, pos) ==
    [Name |-> name, Type |-> type, Children |-> children, Pos |-> pos]

\* prototypes: "i (i)", "v ()", " (i)"
Prototypes ==
    { <<"i", " ", "(", "i", ")">>, <<"v", " ", "(", ")">>, <<" ", "(", "i", ")">> }

ParamLists ==
    { <<>>,
      <<ParmVarDecl("argc", <<"i">>)>>,
      <<ParmVarDecl("argc", <<"i">>), ParmVarDecl("argv", <<"c">>)>> }

ChildLists ==
    { ps \o b : ps \in ParamLists \cup { <<ParmVarDecl("a", <<"i">>)>>,
                                          <<ParmVarDecl("a", <<"u">>)>> },
                 b \in { <<>>, <<CompoundStmt>> } }

PreStmt == ExprStmt(Ident("pre"))
PostStmt == ExprStmt(Ident("post"))
OtherStmt == ExprStmt(Ident("stmt"))

ReturnExprs == { BasicLit("0"), BasicLit("1"), Ident("x") }

ReturnNodes ==
    { ReturnNode(FALSE, FALSE, Nil, <<>>, <<>>, TRUE),
      ReturnNode(TRUE, TRUE, Nil, <<>>, <<>>, TRUE) }
    \cup { ReturnNode(TRUE, FALSE, e, pp[1], pp[2], ok) :
             e \in ReturnExprs,
             pp \in { <<<<>>, <<>>>>, <<<<PreStmt>>, <<PostStmt>>>> },
             ok \in BOOLEAN }

NoReturn == [node |-> Nil, out |-> Nil]

----
\* The state machine

Init ==
    /\ registry = BuiltInDefinitions
    /\ pFunction = Nil
    /\ fileDecls = <<>>
    /\ messages = 0
    /\ imports = {}
    /\ pc = "idle"
    /\ n = Nil
    /\ body = <<>>
    /\ result = "none"
    /\ ret = NoReturn
    /\ lowered = 0

\* (mutant) p.Function is not reset when transpileFunctionDecl returns an
\* error
DeferredFunction_staleOnError(outcome) ==
    IF outcome = "err" THEN pFunction ELSE Nil

\* the deferred function of transpileFunctionDecl: p.Function after the
\* function has left with the given outcome
DeferredFunction(outcome) == Nil

\* transpileFunctionDecl leaves: by return nil, return err or the panic
Leave(outcome) ==
    /\ pFunction' = DeferredFunction(outcome)
    /\ pc' = "idle"
    /\ result' = outcome
    /\ body' = <<>>

\* transpileFunctionDecl from its start to its end or, for a declaration
\* with a body that is to be lowered, to the call of transpileToBlockStmt
FunctionDeclEnter(d) ==
    /\ pc = "idle"
    /\ lowered' = lowered + 1
    /\ n' = d
    /\ ret' = NoReturn
    /\ UNCHANGED <<fileDecls, messages, imports>>
    /\ IF RegisterPanics(registry, d)
       THEN /\ registry' = registry
            /\ Leave("panic")
       ELSE /\ registry' = RegisterDecl(registry, d)
            /\ LET f == GetFunctionDefinition(registry', d.Name) IN
               IF HasSubstitution(f)
               THEN Leave("nil")
               ELSE IF getFunctionBody(d)
               THEN /\ pFunction' = d
                    /\ pc' = "body"
                    /\ result' = "running"
                    /\ body' = <<>>
               ELSE Leave("nil")

\* transpileToBlockStmt meets a return statement: transpileReturnStmt runs
\* and its statements are spliced into the body; its error ends
\* transpileToBlockStmt and transpileFunctionDecl with that error
ReturnStmt(r) ==
    /\ pc = "body"
    /\ LET out == transpileReturnStmt(r, pFunction, registry) IN
       /\ ret' = [node |-> r, out |-> out]
       /\ messages' = messages + ReturnWarnings(r)
       /\ imports' = ReturnImports(r, pFunction, imports)
       /\ IF out.err
          THEN Leave("err")
          ELSE /\ body' = body \o out.preStmts \o <<out.stmt>> \o out.postStmts
               /\ UNCHANGED <<pFunction, pc, result>>
    /\ UNCHANGED <<registry, fileDecls, n, lowered>>

\* transpileToBlockStmt lowers a statement that is no return
Statement ==
    /\ pc = "body"
    /\ body' = Append(body, OtherStmt)
    /\ ret' = NoReturn
    /\ UNCHANGED <<registry, pFunction, fileDecls, messages, imports, pc, n,
                   result, lowered>>

\* transpileToBlockStmt fails: transpileFunctionDecl returns its error
BlockStmtError ==
    /\ pc = "body"
    /\ Leave("err")
    /\ ret' = NoReturn
    /\ UNCHANGED <<registry, fileDecls, messages, imports, n, lowered>>

\* transpileToBlockStmt returns the body: transpileFunctionDecl goes on to
\* its end
FunctionDeclFinish ==
    /\ pc = "body"
    /\ LET f == GetFunctionDefinition(registry, n.Name) IN
       IF IsIgnoredFunction(n.Name)
       THEN UNCHANGED <<fileDecls, messages, imports>>
       ELSE /\ fileDecls' = Append(fileDecls, EmittedDecl(pFunction, n, f, body))
            /\ messages' = messages + EmittedWarnings(n, f)
            /\ imports' = EmittedImports(pFunction, n, imports)
    /\ Leave("nil")
    /\ ret' = NoReturn
    /\ UNCHANGED <<registry, n, lowered>>

\* The declarations and return nodes of the two specifications

\* the child lists of the declarations of a name: main with up to two
\* parameters, the others with at most one, each with and without a body
ChildListsOf(name) ==
    IF name = "main"
    THEN { <<>> } \cup { ps \o <<CompoundStmt>> : ps \in ParamLists }
    ELSE IF name = "f"
    THEN { ps \o b : ps \in { <<>>, <<ParmVarDecl("a", <<"i">>)>> },
                      b \in { <<>>, <<CompoundStmt>> } }
    ELSE { ps \o b : ps \in { <<ParmVarDecl("a", <<"u">>)>> },
                      b \in { <<>>, <<CompoundStmt>> } }

\* the declarations, before their position in the file is known
DeclNodes ==
    { FunctionDecl(nc[1], type, nc[2], 0) :
        nc \in { x \in FunctionNames \X ChildLists : x[2] \in ChildListsOf(x[1]) },
        type \in Prototypes }

At(d, pos) == [d EXCEPT !.Pos = pos]

SomeReturnNodes ==
    { ReturnNode(TRUE, FALSE, Ident("x"), <<PreStmt>>, <<PostStmt>>, FALSE) }

SomeDeclNodes ==
    { FunctionDecl(name, type, ps \o <<CompoundStmt>>, 0) :
        name \in {"main", "f"},
        type \in { <<"i", " ", "(", "i", ")">>, <<"v", " ", "(", ")">> },
        ps \in { <<>>, <<ParmVarDecl("argc", <<"i">>), ParmVarDecl("argv", <<"c">>)>> } }

Next ==
    \/ \E d \in DeclNodes :
          lowered < MaxDecls /\ FunctionDeclEnter(At(d, lowered + 1))
    \/ \E r \in SomeReturnNodes :
          Len(body) < MaxStmts /\ ReturnStmt(r)
    \/ Len(body) < MaxStmts /\ Statement
    \/ BlockStmtError
    \/ FunctionDeclFinish

Spec == Init /\ [][Next]_vars

NextReturn ==
    \/ \E d \in SomeDeclNodes :
          lowered < MaxReturnDecls /\ FunctionDeclEnter(At(d, lowered + 1))
    \/ \E r \in ReturnNodes :
          Len(body) < MaxReturnStmts /\ ReturnStmt(r)
    \/ Len(body) < MaxReturnStmts /\ Statement
    \/ BlockStmtError
    \/ FunctionDeclFinish

SpecReturn == Init /\ [][NextReturn]_vars

----
\* Properties

\* the number of ParmVarDecl children of a declaration
ParamCount(d) ==
    Cardinality({ i \in 1..Len(d.Children) : d.Children[i].kind = "ParmVarDecl" })

\* the name of the k-th ParmVarDecl child of a declaration
RECURSIVE ParamNameFrom(_, _, _)
ParamNameFrom(d, k, i) ==
    IF d.Children[i].kind = "ParmVarDecl"
    THEN IF k = 1 THEN d.Children[i].Name ELSE ParamNameFrom(d, k - 1, i + 1)
    ELSE ParamNameFrom(d, k, i + 1)

\* the prototype has only blanks before its first "("
EmptyReturnType(type) ==
    \A i \in 1..(IndexOf(type, "(", 1) - 1) : type[i] = " "

\* a step that is a whole run of transpileFunctionDecl or its start
EnterStep == pc = "idle" /\ lowered' = lowered + 1

\* a step in which transpileReturnStmt ran
ReturnStep == pc = "body" /\ ret' # NoReturn

\* C1: once a name has a definition in the registry, no lowering of a
\* declaration changes that definition (its return type, argument types and
\* substitution stay those of the first registration); the registry is a map,
\* so it holds at most one definition per name.
C1_FirstRegistrationWins ==
    [][\A name \in FunctionNames :
          registry[name] # Nil => registry'[name] = registry[name]]_vars

\* C1 witness: a second declaration of f, with another return type and other
\* argument types than the registered ones, has been lowered.
C1_Witness ==
    /\ pc = "idle" /\ lowered = 2 /\ result = "nil"
    /\ n.Name = "f"
    /\ ~EmptyReturnType(n.Type)
    /\ registry["f"] # Nil
    /\ registry["f"].ReturnType # getFunctionReturnType(n.Type)
    /\ registry["f"].ArgumentTypes # getFunctionArgumentTypes(n)

\* C2: between two lowerings p.Function is nil, whatever way the last one
\* ended; while the body of a declaration is lowered p.Function is that
\* declaration, the one handed over last.
C2_ActiveFunction ==
    /\ pc = "idle" => pFunction = Nil
    /\ pc = "body" => pFunction = n /\ pFunction.Pos = lowered

\* C2 witness: the second declaration left through the error of its body.
C2_Witness ==
    pc = "idle" /\ lowered = 2 /\ result = "err" /\ pFunction = Nil

\* C3: the definition emitted for main with a body and k parameters has no
\* parameters and no results; its body is the call of __init, then for
\* k >= 1 the binding of the first parameter to len(os.Args), then for
\* k >= 2 the declaration of the second parameter as [][]byte{} and the loop
\* over os.Args appending to it, then the lowered body as it was.
C3_MainRewritten ==
    [][(pc = "body" /\ pc' = "idle" /\ n.Name = "main"
        /\ Len(fileDecls') = Len(fileDecls) + 1)
       => LET fd == fileDecls'[Len(fileDecls')]
              k == ParamCount(n)
              plen == 1 + (IF k >= 1 THEN 1 ELSE 0) + (IF k >= 2 THEN 2 ELSE 0)
          IN  /\ fd.Name = "main"
              /\ fd.Params = <<>>
              /\ fd.Results = <<>>
              /\ Len(fd.Body) = plen + Len(body)
              /\ SubSeq(fd.Body, plen + 1, Len(fd.Body)) = body
              /\ fd.Body[1] = ExprStmt(CallExpr("__init", <<>>))
              /\ k >= 1 =>
                   fd.Body[2] = ExprStmt(BinaryExpr(
                       Ident(ParamNameFrom(n, 1, 1)), ":=", Ident("len(os.Args)")))
              /\ k >= 2 =>
                   /\ fd.Body[3] = ExprStmt(BinaryExpr(
                         Ident(ParamNameFrom(n, 2, 1)), ":=", Ident("[][]byte{}")))
                   /\ fd.Body[4].kind = "RangeStmt"
                   /\ fd.Body[4].x = <<Ident("_"), Ident("argvSingle"),
                                       Ident("os.Args")>>
                   /\ fd.Body[4].inner = <<ExprStmt(BinaryExpr(
                         Ident(ParamNameFrom(n, 2, 1)), "=",
                         CallExpr("append", <<Ident(ParamNameFrom(n, 2, 1)),
                                              Ident("[]byte(argvSingle)")>>)))>>
      ]_vars

\* C3 witness: main with two parameters and a body of three statements has
\* been emitted.
C3_Witness ==
    /\ pc = "idle" /\ result = "nil" /\ n.Name = "main" /\ ParamCount(n) = 2
    /\ fileDecls # <<>>
    /\ fileDecls[Len(fileDecls)].Name = "main"
    /\ Len(fileDecls[Len(fileDecls)].Body) = 7

\* C5 (as claimed): no step of the lowering of a declaration with a body
\* whose name is on the denylist appends a definition, records a diagnostic
\* or ends with an error; the abort on a malformed prototype is left aside.
C5_IgnoredIsSilent ==
    [][(IsIgnoredFunction(n'.Name) /\ getFunctionBody(n') /\ result' # "panic")
       => /\ fileDecls' = fileDecls
          /\ messages' = messages
          /\ result' \in {"running", "nil"}]_vars

\* C6 (as claimed): after the lowering of a declaration with no body it has
\* returned nil and the registry holds a definition for its name.
C6_NoBodyOriginal ==
    (pc = "idle" /\ n # Nil /\ ~getFunctionBody(n))
        => (result = "nil" /\ registry[n.Name] # Nil)

\* C6 (amended): the lowering of a declaration with no body that has a
\* return type in its prototype or a name already registered appends no
\* definition, returns nil and leaves a definition registered for the name.
C6_NoBodyRegistersOnly ==
    [][(EnterStep /\ FirstCompound(n'.Children, 1) = 0
        /\ (registry[n'.Name] # Nil \/ ~EmptyReturnType(n'.Type)))
       => /\ fileDecls' = fileDecls
          /\ pc' = "idle" /\ result' = "nil"
          /\ registry'[n'.Name] # Nil]_vars

\* C6 witness: a declaration of f with no body was lowered after f had
\* been registered by an earlier declaration.
C6_Witness ==
    /\ pc = "idle" /\ lowered = 2 /\ result = "nil"
    /\ n.Name = "f" /\ FirstCompound(n.Children, 1) = 0
    /\ EmptyReturnType(n.Type)
    /\ registry["f"] # Nil

\* C7: the lowering of a declaration whose name is registered with a
\* substitution ends at once: nothing is appended, nil is returned, the body
\* is not lowered and no diagnostic is recorded.
C7_SubstitutedIsSkipped ==
    [][(EnterStep /\ registry[n'.Name] # Nil
        /\ registry[n'.Name].Substitution # "")
       => /\ fileDecls' = fileDecls
          /\ pc' = "idle" /\ result' = "nil"
          /\ messages' = messages
          /\ body' = <<>>]_vars

\* C7 witness: a declaration of the substituted function that has a body
\* was lowered.
C7_Witness ==
    /\ pc = "idle" /\ result = "nil" /\ lowered >= 1
    /\ n.Name = "sub" /\ FirstCompound(n.Children, 1) # 0
    /\ registry["sub"].Substitution # ""

C4_MainReturn ==
    [][(ReturnStep /\ IsMain(pFunction)
        /\ ret'.node.hasChild /\ ~ret'.node.exprErr)
       => LET r == ret'.node
              out == ret'.out
              value == IF r.castOk
                       THEN Expr("Cast", "", registry["main"].ReturnType, <<r.e>>)
                       ELSE BasicLit("nil")
          IN  /\ ~out.err
              /\ out.preStmts = r.preStmts
              /\ out.postStmts = r.postStmts
              /\ IF r.e.kind = "BasicLit" /\ r.e.value = "0"
                 THEN /\ out.stmt = Stmt("ReturnStmt", <<>>, <<>>)
                      /\ imports' = imports
                 ELSE /\ out.stmt = ExprStmt(CallExpr("os.Exit", <<value>>))
                      /\ "os" \in imports']_vars

\* C4 witness: return 1 was lowered in main.
C4_Witness ==
    /\ pc = "body" /\ ret # NoReturn /\ IsMain(pFunction)
    /\ ret.node.hasChild /\ ~ret.node.exprErr /\ ret.node.castOk
    /\ ret.node.e = BasicLit("1")
    /\ ret.out.stmt.kind = "ExprStmt"

\* C8: when the child of a return node was lowered and the cast fails,
\* transpileReturnStmt returns no error and records one diagnostic; the
\* placeholder takes the place of the value: it is the result returned in a
\* function other than main and the argument of os.Exit in main (where the
\* literal 0 gives the bare return, which has no value).
C8_FailedCast ==
    [][(ReturnStep /\ ret'.node.hasChild /\ ~ret'.node.exprErr
        /\ ~ret'.node.castOk)
       => LET r == ret'.node
              out == ret'.out
          IN  /\ ~out.err
              /\ pc' = "body"
              /\ messages' = messages + 1
              /\ IF ~IsMain(pFunction)
                 THEN out.stmt = Stmt("ReturnStmt", <<BasicLit("nil")>>, <<>>)
                 ELSE IF r.e = BasicLit("0")
                 THEN out.stmt = Stmt("ReturnStmt", <<>>, <<>>)
                 ELSE out.stmt = ExprStmt(CallExpr("os.Exit", <<BasicLit("nil")>>))
      ]_vars

\* C8 witness: a return whose cast failed was lowered in f.
C8_Witness ==
    /\ pc = "body" /\ ret # NoReturn /\ pFunction.Name = "f"
    /\ ret.node.hasChild /\ ~ret.node.exprErr /\ ~ret.node.castOk
    /\ messages >= 1

\* C9: a return node with no child gives a return with no results, empty
\* pre- and post-statements and no error, in main as elsewhere, and records
\* neither an import nor a diagnostic.
C9_BareReturn ==
    [][(ReturnStep /\ ~ret'.node.hasChild)
       => /\ ret'.out = [stmt |-> Stmt("ReturnStmt", <<>>, <<>>),
                         preStmts |-> <<>>, postStmts |-> <<>>, err |-> FALSE]
          /\ messages' = messages
          /\ imports' = imports
          /\ pc' = "body"]_vars

\* C9 witness: a return with no child was lowered in main.
C9_Witness ==
    /\ pc = "body" /\ ret # NoReturn /\ ~ret.node.hasChild
    /\ IsMain(pFunction)


====
